---- MODULE Spec2Model ----
(***************************************************************************)
(* Folder Manager API: a FastAPI service that exposes the operations of    *)
(* folder_manager.Folder as eight authenticated POST endpoints.            *)
(*                                                                         *)
(* A request is received, logged by the log_requests middleware, has its   *)
(* body read as JSON by the route, passes the HTTP Basic dependency        *)
(* (get_current_username), has its body validated against the endpoint's   *)
(* pydantic models and is then run by the endpoint function on a worker    *)
(* thread, where it performs one Folder operation on the filesystem.       *)
(***************************************************************************)
EXTENDS Integers, Sequences, FiniteSets, TLC

\* Bounds of the model.
NumWorkers == 1

VARIABLES
    folders,   \* the directories that exist
    files,     \* the files that exist: a set of <<path, file_name, content>>
    pending,   \* pending[w]: the request worker w is about to run, or << >>
    last       \* the exchange being answered <<[req, call, resp]>>, or << >>

vars == <<folders, files, pending, last>>

Workers == 1 .. NumWorkers

\* ---------------------------------------------------------------- inputs

ValidPath == "/tmp/x"
InvalidPath == ""
Paths == {ValidPath, InvalidPath}
FileNames == {"a.txt", "b.txt"}
Contents == {"hi"}

Endpoints ==
    {"/create_folder/", "/list_files/", "/count_files/", "/create_file/",
     "/delete_file/", "/delete_folder/", "/folder_exists/", "/file_exists/"}

PathEndpoints ==
    {"/create_folder/", "/list_files/", "/count_files/", "/delete_folder/",
     "/folder_exists/"}

FileEndpoints == {"/delete_file/", "/file_exists/"}

\* The configured credential pair (the defaults written to the config file).
username == "admin"
password == "password"

NoHeader == [present |-> FALSE, username |-> "", password |-> ""]
Basic(u, p) == [present |-> TRUE, username |-> u, password |-> p]
Authorizations ==
    {NoHeader, Basic("admin", "password"), Basic("admin", "letmein"),
     Basic("guest", "password")}

\* A request body: text that is not JSON, or a JSON object. `has` are the
\* keys the object carries; `embed` says the keys are wrapped as
\* {"operation": {path}, "request": {file_name, content}} instead of being
\* the members of the single top-level object.
Unparseable ==
    [json |-> FALSE, embed |-> FALSE, has |-> {}, path |-> "",
     file_name |-> "", content |-> ""]
Obj(e, h, p, n, c) ==
    [json |-> TRUE, embed |-> e, has |-> h, path |-> p, file_name |-> n,
     content |-> c]

DocumentedFields(ep) ==
    IF ep \in PathEndpoints THEN {"path"}
    ELSE IF ep \in FileEndpoints THEN {"path", "file_name"}
    ELSE {"path", "file_name", "content"}

BodiesFor(ep) ==
    {Unparseable} \cup
    {Obj(e, h, p, n, c) :
        e \in (IF ep = "/create_file/" THEN BOOLEAN ELSE {FALSE}),
        h \in SUBSET DocumentedFields(ep),
        p \in Paths \cup {""}, n \in FileNames \cup {""},
        c \in Contents \cup {""}}

WellFormed(b) ==
    /\ ("path" \notin b.has => b.path = "")
    /\ ("file_name" \notin b.has => b.file_name = "")
    /\ ("file_name" \in b.has => b.file_name \in FileNames)
    /\ ("content" \notin b.has => b.content = "")
    /\ ("content" \in b.has => b.content \in Contents)

Requests ==
    UNION {{[endpoint |-> ep, authorization |-> a, body |-> b] :
               a \in Authorizations,
               b \in {x \in BodiesFor(ep) : WellFormed(x)}} :
           ep \in Endpoints}

\* ------------------------------------------------------------- responses

NoBody ==
    [kind |-> "null", text |-> "", files |-> << >>, file_count |-> 0,
     exists |-> FALSE]
Detail(t) == [NoBody EXCEPT !.kind = "detail", !.text = t]
Message(t) == [NoBody EXCEPT !.kind = "message", !.text = t]
FilesBody(s) == [NoBody EXCEPT !.kind = "files", !.files = s]
FileCountBody(n) == [NoBody EXCEPT !.kind = "file_count", !.file_count = n]
ExistsBody(b) == [NoBody EXCEPT !.kind = "exists", !.exists = b]

\* What FastAPI sends for a value returned by an endpoint function.
JSONResponse(b) == [status |-> 200, headers |-> {}, body |-> b]
\* What FastAPI sends for a raised HTTPException.
HTTPException(status_code, detail, headers) ==
    [status |-> status_code, headers |-> headers, body |-> Detail(detail)]
\* What FastAPI sends for a body that fails parsing or validation.
RequestValidationError(type) ==
    [status |-> 422, headers |-> {}, body |-> Detail(type)]

Raise(r) == [raised |-> TRUE, resp |-> r, value |-> ""]
Return(v) == [raised |-> FALSE, resp |-> JSONResponse(NoBody), value |-> v]

\* ------------------------------------------------- authentication (l.39-50)

compare_digest(a, b) == a = b

\* security = HTTPBasic(): no usable Authorization header is a 401 challenge.
security(authorization) ==
    IF ~authorization.present
    THEN Raise(HTTPException(401, "Not authenticated",
                             {<<"WWW-Authenticate", "Basic">>}))
    ELSE Return(authorization)

\* Mutant: only the username is compared.
get_current_username_user_only(credentials) ==
    LET correct_username == compare_digest(credentials.username, username)
    IN  IF ~correct_username
        THEN Raise(HTTPException(401, "Incorrect username or password",
                                 {<<"WWW-Authenticate", "Basic">>}))
        ELSE Return(credentials.username)

get_current_username(credentials) ==
    LET correct_username == compare_digest(credentials.username, username)
        correct_password == compare_digest(credentials.password, password)
    IN  IF ~(correct_username /\ correct_password)
        THEN Raise(HTTPException(401, "Incorrect username or password",
                                 {<<"WWW-Authenticate", "Basic">>}))
        ELSE Return(credentials.username)

\* ------------------------------------------------ request models (l.52-61)

CreateFileRequest == [required |-> {"file_name"}, optional |-> {"content"}]
PathOperation == [required |-> {"path"}, optional |-> {}]
FileOperation == [required |-> {"path", "file_name"}, optional |-> {}]

\* The body parameters each endpoint function declares: <<name, model>>.
BodyParams(ep) ==
    IF ep = "/create_file/"
    THEN {<<"operation", PathOperation>>, <<"request", CreateFileRequest>>}
    ELSE IF ep \in FileEndpoints
    THEN {<<"operation", FileOperation>>}
    ELSE {<<"operation", PathOperation>>}

\* The keys the body supplies for one body parameter. An endpoint with one
\* model parameter reads the model from the top-level object; an endpoint
\* with several reads each model from the member named after the parameter.
KeysFor(ep, b, param) ==
    IF Cardinality(BodyParams(ep)) = 1
    THEN (IF b.embed THEN {} ELSE b.has)
    ELSE IF ~b.embed THEN {}
    ELSE IF param = "operation" THEN b.has \cap {"path"}
    ELSE b.has \cap {"file_name", "content"}

\* Mutant: the body is handed to the endpoint without validation.
BodyValid_unchecked(ep, b) == TRUE

BodyValid(ep, b) ==
    \A pm \in BodyParams(ep) : pm[2].required \subseteq KeysFor(ep, b, pm[1])

\* ------------------------------------------------ middleware (l.63-74)

\* log_requests logs the request, tries to parse the body for the log
\* (a failure is caught and logged) and returns call_next's response.
log_requests(request, response) ==
    LET logged == IF request.body.json THEN "Body" ELSE "Failed to parse body"
    IN  response

\* ------------------------------------------- route handling (l.76-138)

\* The order in which a route settles a request before the endpoint function
\* runs: the JSON body is read, then the dependencies are solved
\* (Depends(get_current_username), itself Depends(security)), then the body
\* is validated against the declared models.
Dispatch(req) ==
    IF ~req.body.json
    THEN [rejected |-> TRUE, resp |-> RequestValidationError("json_invalid")]
    ELSE LET credentials == security(req.authorization)
         IN  IF credentials.raised
             THEN [rejected |-> TRUE, resp |-> credentials.resp]
             ELSE LET user == get_current_username(credentials.value)
                  IN  IF user.raised
                      THEN [rejected |-> TRUE, resp |-> user.resp]
                      ELSE IF ~BodyValid(req.endpoint, req.body)
                      THEN [rejected |-> TRUE,
                            resp |-> RequestValidationError("missing")]
                      ELSE [rejected |-> FALSE,
                            resp |-> JSONResponse(NoBody)]

\* The arguments the endpoint function receives from a valid body.
Operation(req) ==
    [path |-> req.body.path, file_name |-> req.body.file_name]
Request(req) ==
    [file_name |-> req.body.file_name,
     content |-> IF "content" \in req.body.has THEN req.body.content ELSE ""]

\* ------------------------------------------- folder_manager.Folder (l.8)

Entries(path) == {f[2] : f \in {g \in files : g[1] = path}}
Under(path) == {f \in files : f[1] = path}
Orders(S) ==
    {s \in [1 .. Cardinality(S) -> S] :
        \A i, j \in 1 .. Cardinality(S) : i # j => s[i] # s[j]}

FolderError(msg, ret) ==
    [raised |-> TRUE, msg |-> msg, ret |-> ret, folders |-> folders,
     files |-> files]
Returned(ret, fo, fi) ==
    [raised |-> FALSE, msg |-> "", ret |-> ret, folders |-> fo, files |-> fi]

\* Each operation yields the outcomes the Folder contract allows in the
\* current filesystem state; a mutating operation that does not raise
\* returns a success indicator, truthy or falsy.
Folder_create_folder(path) ==
    IF path = InvalidPath
    THEN {FolderError("cannot create folder", FALSE)}
    ELSE IF path \in folders
    THEN {FolderError("folder already exists", FALSE)}
         \cup {Returned(ret, folders, files) : ret \in BOOLEAN}
    ELSE {Returned(ret, folders \cup {path}, files) : ret \in BOOLEAN}

Folder_list_files(path) ==
    IF path \notin folders
    THEN {FolderError("folder does not exist", << >>)}
    ELSE {Returned(s, folders, files) : s \in Orders(Entries(path))}

Folder_count_files(path) ==
    IF path \notin folders
    THEN {FolderError("folder does not exist", 0)}
    ELSE {Returned(Cardinality(Entries(path)), folders, files)}

Folder_create_file(path, file_name, content) ==
    IF path \notin folders
    THEN {FolderError("folder does not exist", FALSE)}
    ELSE {Returned(ret, folders,
                   {f \in files : ~(f[1] = path /\ f[2] = file_name)}
                       \cup {<<path, file_name, content>>}) :
             ret \in BOOLEAN}

Folder_delete_file(path, file_name) ==
    IF file_name \notin Entries(path)
    THEN {FolderError("file does not exist", FALSE)}
    ELSE {Returned(ret, folders,
                   {f \in files : ~(f[1] = path /\ f[2] = file_name)}) :
             ret \in BOOLEAN}

\* Whether a non-empty folder is removed with its files or refused is left
\* to the implementation: both outcomes are allowed.
Folder_delete_folder(path) ==
    IF path \notin folders
    THEN {FolderError("folder does not exist", FALSE)}
    ELSE (IF Under(path) # {}
          THEN {FolderError("folder is not empty", FALSE)} ELSE {})
         \cup {Returned(ret, folders \ {path}, files \ Under(path)) :
                  ret \in BOOLEAN}

Folder_folder_exists(path) == path \in folders
Folder_file_exists(path, file_name) == file_name \in Entries(path)

\* ------------------------------------------------- endpoints (l.76-138)
\* Each endpoint function maps the outcome of its Folder call to a response.

\* Mutant: a falsy success indicator is reported as a failure.
create_folder_strict(operation, out) ==
    IF out.raised THEN HTTPException(500, out.msg, {})
    ELSE IF out.ret THEN JSONResponse(Message("Folder created successfully"))
    ELSE HTTPException(500, "Folder not created", {})

create_folder(operation, out) ==
    IF out.raised THEN HTTPException(500, out.msg, {})
    ELSE IF out.ret THEN JSONResponse(Message("Folder created successfully"))
    ELSE JSONResponse(NoBody)

list_files(operation, out) ==
    IF out.raised THEN HTTPException(500, out.msg, {})
    ELSE JSONResponse(FilesBody(out.ret))

\* Mutant: a FolderError is reported as an empty folder.
count_files_swallowed(operation, out) ==
    IF out.raised THEN JSONResponse(FileCountBody(0))
    ELSE JSONResponse(FileCountBody(out.ret))

count_files(operation, out) ==
    IF out.raised THEN HTTPException(500, out.msg, {})
    ELSE JSONResponse(FileCountBody(out.ret))

create_file(operation, request, out) ==
    IF out.raised THEN HTTPException(500, out.msg, {})
    ELSE IF out.ret
    THEN JSONResponse(Message("File '" \o request.file_name
                                  \o "' created successfully"))
    ELSE JSONResponse(NoBody)

\* Mutant: the FolderError is caught and dropped.
delete_file_swallowed(operation, out) ==
    IF ~out.raised /\ out.ret
    THEN JSONResponse(Message("File '" \o operation.file_name
                                  \o "' deleted successfully"))
    ELSE JSONResponse(NoBody)

delete_file(operation, out) ==
    IF out.raised THEN HTTPException(500, out.msg, {})
    ELSE IF out.ret
    THEN JSONResponse(Message("File '" \o operation.file_name
                                  \o "' deleted successfully"))
    ELSE JSONResponse(NoBody)

\* Mutant: the FolderError is caught and dropped.
delete_folder_swallowed(operation, out) ==
    IF ~out.raised /\ out.ret
    THEN JSONResponse(Message("Folder '" \o operation.path
                                  \o "' deleted successfully"))
    ELSE JSONResponse(NoBody)

delete_folder(operation, out) ==
    IF out.raised THEN HTTPException(500, out.msg, {})
    ELSE IF out.ret
    THEN JSONResponse(Message("Folder '" \o operation.path
                                  \o "' deleted successfully"))
    ELSE JSONResponse(NoBody)

folder_exists(operation, exists) == JSONResponse(ExistsBody(exists))

\* Mutant: an absent file is reported as a fault.
file_exists_strict(operation, exists) ==
    IF exists THEN JSONResponse(ExistsBody(TRUE))
    ELSE HTTPException(500, "file does not exist", {})

file_exists(operation, exists) == JSONResponse(ExistsBody(exists))

\* What the endpoint function did: the Folder call it made and how the call
\* ended, the response, and the filesystem the call leaves.
NoCall == [called |-> FALSE, raised |-> FALSE, msg |-> "", truthy |-> FALSE]
Call(out, truthy) ==
    [called |-> TRUE, raised |-> out.raised, msg |-> out.msg,
     truthy |-> truthy]
Indicator(out) == Call(out, ~out.raised /\ out.ret)
Value(out) == Call(out, ~out.raised)
Answered == [called |-> TRUE, raised |-> FALSE, msg |-> "", truthy |-> TRUE]
Effect(resp, call, fo, fi) ==
    [resp |-> resp, call |-> call, folders |-> fo, files |-> fi]

\* The endpoint function of a request that passed Dispatch: the possible
\* responses, each with the filesystem its Folder call leaves.
Endpoint(req) ==
    LET operation == Operation(req)
        request == Request(req)
        ep == req.endpoint
    IN  IF ep = "/create_folder/"
        THEN {Effect(create_folder(operation, out), Indicator(out), out.folders,
                     out.files) :
                 out \in Folder_create_folder(operation.path)}
        ELSE IF ep = "/list_files/"
        THEN {Effect(list_files(operation, out), Value(out), out.folders,
                     out.files) :
                 out \in Folder_list_files(operation.path)}
        ELSE IF ep = "/count_files/"
        THEN {Effect(count_files(operation, out), Value(out), out.folders,
                     out.files) :
                 out \in Folder_count_files(operation.path)}
        ELSE IF ep = "/create_file/"
        THEN {Effect(create_file(operation, request, out), Indicator(out),
                     out.folders, out.files) :
                 out \in Folder_create_file(operation.path, request.file_name,
                                            request.content)}
        ELSE IF ep = "/delete_file/"
        THEN {Effect(delete_file(operation, out), Indicator(out), out.folders,
                     out.files) :
                 out \in Folder_delete_file(operation.path,
                                            operation.file_name)}
        ELSE IF ep = "/delete_folder/"
        THEN {Effect(delete_folder(operation, out), Indicator(out), out.folders,
                     out.files) :
                 out \in Folder_delete_folder(operation.path)}
        ELSE IF ep = "/folder_exists/"
        THEN {Effect(folder_exists(operation,
                                   Folder_folder_exists(operation.path)),
                     Answered, folders, files)}
        ELSE {Effect(file_exists(operation,
                                 Folder_file_exists(operation.path,
                                                    operation.file_name)),
                     Answered, folders, files)}

\* ---------------------------------------------------------------- actions

Exchange(req, call, resp) == <<[req |-> req, call |-> call, resp |-> resp]>>

Init ==
    /\ folders = {}
    /\ files = {}
    /\ pending = [w \in Workers |-> << >>]
    /\ last = << >>

\* A request is answered before any endpoint function runs.
Reject(req) ==
    /\ Dispatch(req).rejected
    /\ last' = Exchange(req, NoCall, log_requests(req, Dispatch(req).resp))
    /\ UNCHANGED <<folders, files, pending>>

\* A request passes Dispatch and is handed to a free worker thread.
Accept(w, req) ==
    /\ pending[w] = << >>
    /\ ~Dispatch(req).rejected
    /\ pending' = [pending EXCEPT ![w] = <<req>>]
    /\ UNCHANGED <<folders, files, last>>

\* A worker thread runs the endpoint function and the response is sent.
Run(w) ==
    /\ pending[w] # << >>
    /\ \E e \in Endpoint(pending[w][1]) :
          /\ folders' = e.folders
          /\ files' = e.files
          /\ last' = Exchange(pending[w][1], e.call,
                              log_requests(pending[w][1], e.resp))
    /\ pending' = [pending EXCEPT ![w] = << >>]

\* The response has been written to the client's connection.
Sent ==
    /\ last # << >>
    /\ last' = << >>
    /\ UNCHANGED <<folders, files, pending>>

\* While a response is being written nothing else is observed; the server
\* takes its next step once it is sent.
Rejected == last = << >> /\ \E req \in Requests : Reject(req)
Accepted == last = << >> /\ \E w \in Workers, req \in Requests : Accept(w, req)
Ran == last = << >> /\ \E w \in Workers : Run(w)

Next == Rejected \/ Accepted \/ Ran \/ Sent

Spec == Init /\ [][Next]_vars

\* ------------------------------------------------------------ properties

\* The request carries the configured username and password.
Configured(req) ==
    /\ req.authorization.present
    /\ req.authorization.username = "admin"
    /\ req.authorization.password = "password"

\* The body is the documented single JSON object with its required fields.
DocumentedRequired(ep) == DocumentedFields(ep) \ {"content"}
SchemaValid(req) ==
    /\ req.body.json
    /\ ~req.body.embed
    /\ DocumentedRequired(req.endpoint) \subseteq req.body.has
InvalidBody(req) ==
    \/ ~req.body.json
    \/ ~(DocumentedRequired(req.endpoint) \subseteq req.body.has)

\* This step answers a request: x' is the exchange.
Answers == last = << >> /\ last' # << >>
Challenge == <<"WWW-Authenticate", "Basic">>
FileAt(fi, path, file_name) == {f \in fi : f[1] = path /\ f[2] = file_name}

\* C1: a request without the configured credentials is answered 401 with
\* WWW-Authenticate: Basic, whatever its endpoint and body (valid, missing a
\* required field, or not parseable JSON).
C1_Unauthenticated401 ==
    (last # << >> /\ ~Configured(last[1].req)) =>
        /\ last[1].resp.status = 401
        /\ Challenge \in last[1].resp.headers

\* C2: a request whose body is not JSON or lacks a required field is answered
\* with a 4xx status, no Folder operation is called and the folders and
\* files are left as they were.
C2_InvalidBodyNoEffect ==
    [][(Answers /\ InvalidBody(last'[1].req)) =>
          /\ last'[1].resp.status \in 400 .. 499
          /\ ~last'[1].call.called
          /\ folders' = folders
          /\ files' = files]_vars

C2_Witness ==
    /\ last # << >>
    /\ Configured(last[1].req)
    /\ last[1].req.endpoint = "/delete_folder/"
    /\ last[1].req.body.json
    /\ "path" \notin last[1].req.body.has
    /\ last[1].resp.status = 422
    /\ folders # {}
    /\ files # {}

\* C3: on the six endpoints that catch FolderError, a Folder operation that
\* raises FolderError is answered 500 with the error's message as detail,
\* never with a success or another error status.
C3_FolderErrorIs500 ==
    (last # << >> /\ last[1].call.called /\ last[1].call.raised) =>
        /\ last[1].req.endpoint \in
               Endpoints \ {"/folder_exists/", "/file_exists/"}
        /\ last[1].resp.status = 500
        /\ last[1].resp.body = Detail(last[1].call.msg)

C3_Witness ==
    /\ last # << >>
    /\ last[1].req.endpoint = "/delete_file/"
    /\ last[1].call.raised
    /\ last[1].resp.status = 500
    /\ last[1].req.body.path \in folders

\* C4: an authenticated, schema-valid /folder_exists/ or /file_exists/ is
\* answered 200 with exists = TRUE exactly when the folder (the file under
\* the path) exists, never with an error, and changes nothing.
C4_ExistsNeverErrors ==
    [][(/\ Answers
        /\ last'[1].req.endpoint \in {"/folder_exists/", "/file_exists/"}
        /\ Configured(last'[1].req)
        /\ SchemaValid(last'[1].req)) =>
          /\ last'[1].resp.status = 200
          /\ last'[1].resp.body.kind = "exists"
          /\ last'[1].resp.body.exists =
                 IF last'[1].req.endpoint = "/folder_exists/"
                 THEN last'[1].req.body.path \in folders
                 ELSE FileAt(files, last'[1].req.body.path,
                             last'[1].req.body.file_name) # {}
          /\ folders' = folders
          /\ files' = files]_vars

C4_Witness ==
    /\ last # << >>
    /\ last[1].req.endpoint = "/file_exists/"
    /\ last[1].resp.status = 200
    /\ last[1].resp.body.exists = FALSE
    /\ last[1].req.body.path \in folders
    /\ files # {}

\* C5: an authenticated /create_file/ whose body is the single object
\* {path, file_name, content?} on an existing folder is answered 200 with a
\* message, and afterwards the file holds exactly the supplied content (the
\* empty content when none is supplied), replacing any earlier content.
C5_CreateFileSingleObject ==
    [][(/\ Answers
        /\ last'[1].req.endpoint = "/create_file/"
        /\ Configured(last'[1].req)
        /\ SchemaValid(last'[1].req)
        /\ last'[1].req.body.path \in folders) =>
          /\ last'[1].resp.status = 200
          /\ last'[1].resp.body.kind = "message"
          /\ FileAt(files', last'[1].req.body.path,
                    last'[1].req.body.file_name) =
                 {<<last'[1].req.body.path, last'[1].req.body.file_name,
                    IF "content" \in last'[1].req.body.has
                    THEN last'[1].req.body.content ELSE "">>}]_vars

\* C6: with nothing in between, /count_files/ and /list_files/ on the same
\* folder agree: one is answered 500 exactly when the other is, and
\* otherwise file_count is the length of files.
AsEndpoint(req, ep) == [req EXCEPT !.endpoint = ep]
C6_CountMatchesList ==
    (last # << >> /\ last[1].call.called) =>
        /\ last[1].req.endpoint = "/count_files/" =>
              \A e \in Endpoint(AsEndpoint(last[1].req, "/list_files/")) :
                  /\ last[1].resp.status \in {200, 500}
                  /\ e.resp.status = 500 <=> last[1].resp.status = 500
                  /\ last[1].resp.status = 200 =>
                        /\ last[1].resp.body.kind = "file_count"
                        /\ e.resp.body.kind = "files"
                        /\ last[1].resp.body.file_count =
                               Len(e.resp.body.files)
        /\ last[1].req.endpoint = "/list_files/" =>
              \A e \in Endpoint(AsEndpoint(last[1].req, "/count_files/")) :
                  /\ last[1].resp.status \in {200, 500}
                  /\ e.resp.status = 500 <=> last[1].resp.status = 500
                  /\ last[1].resp.status = 200 =>
                        /\ last[1].resp.body.kind = "files"
                        /\ e.resp.body.kind = "file_count"
                        /\ e.resp.body.file_count =
                               Len(last[1].resp.body.files)

C6_Witness ==
    /\ last # << >>
    /\ last[1].req.endpoint = "/count_files/"
    /\ last[1].resp.status = 200
    /\ last[1].resp.body.file_count = 2

\* C7: an authenticated /create_folder/ on a valid path that does not exist
\* is answered with success and the folder exists; a folder stops existing
\* only by a /delete_folder/ on it; and /folder_exists/ reports TRUE for a
\* folder that exists.
C7_CreateThenExists ==
    [][/\ (/\ Answers
           /\ last'[1].req.endpoint = "/create_folder/"
           /\ Configured(last'[1].req)
           /\ SchemaValid(last'[1].req)
           /\ last'[1].req.body.path # InvalidPath
           /\ last'[1].req.body.path \notin folders) =>
              /\ last'[1].resp.status = 200
              /\ last'[1].req.body.path \in folders'
       /\ \A p \in folders \ folders' :
              /\ Answers
              /\ last'[1].req.endpoint = "/delete_folder/"
              /\ last'[1].req.body.path = p
       /\ (/\ Answers
           /\ last'[1].req.endpoint = "/folder_exists/"
           /\ Configured(last'[1].req)
           /\ SchemaValid(last'[1].req)
           /\ last'[1].req.body.path \in folders) =>
              /\ last'[1].resp.status = 200
              /\ last'[1].resp.body.exists = TRUE]_vars

C7_Witness ==
    /\ last # << >>
    /\ last[1].req.endpoint = "/folder_exists/"
    /\ last[1].req.body.path = ValidPath
    /\ last[1].resp.status = 200
    /\ last[1].resp.body.exists = TRUE

C9_MessageOrError ==
    (/\ last # << >>
     /\ last[1].call.called
     /\ last[1].req.endpoint \in
            {"/create_folder/", "/create_file/", "/delete_file/",
             "/delete_folder/"}) =>
        \/ /\ last[1].resp.status = 200
           /\ last[1].resp.body.kind = "message"
        \/ /\ last[1].resp.status = 500
           /\ last[1].call.raised
           /\ last[1].resp.body = Detail(last[1].call.msg)

\* C10: no Folder operation is called for a request that fails
\* authentication: a request answered 401 leaves the folders and files as
\* they were, also while other requests are running, and every step that
\* changes them answers a request that carries the configured credentials.
C10_MutationsAuthenticated ==
    [][/\ (Answers /\ (last'[1].resp.status = 401
                        \/ ~Configured(last'[1].req))) =>
              /\ ~last'[1].call.called
              /\ folders' = folders
              /\ files' = files
       /\ (folders' # folders \/ files' # files) =>
              /\ Answers
              /\ Configured(last'[1].req)
              /\ last'[1].call.called
       /\ \A w \in Workers :
              pending'[w] # << >> => Configured(pending'[w][1])]_vars

C10_Witness ==
    /\ last # << >>
    /\ last[1].resp.status = 401
    /\ last[1].req.body.json
    /\ SchemaValid(last[1].req)
    /\ last[1].req.endpoint = "/delete_folder/"
    /\ last[1].req.body.path \in folders
    /\ \E w \in Workers : pending[w] # << >>

====
